---- MODULE Spec2Model ----
(***************************************************************************)
(* WeSense Zenoh Bridge (src/zenoh-bridge/bridge.py): a subscriber         *)
(* delivers decoded readings to ZenohBridge._on_reading, which             *)
(* deduplicates, normalises and appends rows to a buffered writer; run and *)
(* shutdown drive the process lifecycle.                                   *)
(*                                                                         *)
(* Python values are records [type, n, s, mag]: n is the integer payload   *)
(* (tenths for a float), s the characters of a str (one-character          *)
(* strings), mag the magnitude class of a number ("exact", "nan", "inf",   *)
(* or a power of ten beyond what TLC's integers hold).                     *)
(***************************************************************************)
EXTENDS Integers, Sequences, FiniteSets, TLC

\* ------------------------------------------------------------ bounds
MaxDeliveries == 2
MaxExpiries == 1
MaxSignals == 2

\* ------------------------------------------------------ Python values
PyVal(t, n, s, m) == [type |-> t, n |-> n, s |-> s, mag |-> m]
PyNone == PyVal("NoneType", 0, <<>>, "exact")
Missing == PyVal("missing", 0, <<>>, "exact")
PyInt(n) == PyVal("int", n, <<>>, "exact")
PyBigInt(m) == PyVal("int", 0, <<>>, m)
PyFloat(tenths) == PyVal("float", tenths, <<>>, "exact")
PyNaN == PyVal("float", 0, <<>>, "nan")
PyInf == PyVal("float", 0, <<>>, "inf")
PyStr(s) == PyVal("str", 0, s, "exact")
PyDatetime(secs) == PyVal("datetime", secs, <<>>, "exact")

\* The outcome of an expression: the exception it raises ("None" when it
\* returns) and the value it returns.
Ok(v) == [exc |-> "None", val |-> v]
Raise(e) == [exc |-> e, val |-> PyNone]

Digits == <<"0", "1", "2", "3", "4", "5", "6", "7", "8", "9">>
HexDigits == Digits \o <<"a", "b", "c", "d", "e", "f">>

IsDigit(c) == \E i \in 1..Len(Digits) : Digits[i] = c
DigitValue(c) == (CHOOSE i \in 1..Len(Digits) : Digits[i] = c) - 1
AllDigits(s) == \A i \in 1..Len(s) : IsDigit(s[i])

RECURSIVE DecimalValue(_)
DecimalValue(s) ==
    IF s = <<>> THEN 0
    ELSE 10 * DecimalValue(SubSeq(s, 1, Len(s) - 1)) + DigitValue(s[Len(s)])

\* int(x), for the value shapes of the model: a str is a decimal literal
\* made of digits or it is rejected.
IntOf(x) ==
    CASE x.type = "int" -> Ok(x)
      [] x.type = "float" /\ x.mag = "nan" -> Raise("ValueError")
      [] x.type = "float" /\ x.mag = "inf" -> Raise("OverflowError")
      [] x.type = "float" ->
            Ok(PyInt(IF x.n >= 0 THEN x.n \div 10 ELSE -((-x.n) \div 10)))
      [] x.type = "str" ->
            IF x.s # <<>> /\ AllDigits(x.s) THEN Ok(PyInt(DecimalValue(x.s)))
            ELSE Raise("ValueError")
      [] OTHER -> Raise("TypeError")

\* datetime.fromtimestamp(i, tz=timezone.utc) of an int: beyond year 9999
\* ValueError, beyond gmtime() OSError, beyond time_t OverflowError.
FromTimestamp(i) ==
    CASE i.mag = "exact" -> Ok(PyDatetime(i.n))
      [] i.mag = "e12" -> Raise("ValueError")
      [] i.mag = "e18" -> Raise("OSError")
      [] OTHER -> Raise("OverflowError")

\* float(x): a str is digits, digits "." digit, "nan" or "inf", or it is
\* rejected; an int beyond the double range overflows.
FloatOfStr(s) ==
    CASE s = <<"n", "a", "n">> -> Ok(PyNaN)
      [] s = <<"i", "n", "f">> -> Ok(PyInf)
      [] s # <<>> /\ AllDigits(s) -> Ok(PyFloat(10 * DecimalValue(s)))
      [] Len(s) >= 3 /\ s[Len(s) - 1] = "." /\ IsDigit(s[Len(s)])
            /\ AllDigits(SubSeq(s, 1, Len(s) - 2)) ->
            Ok(PyFloat(10 * DecimalValue(SubSeq(s, 1, Len(s) - 2))
                       + DigitValue(s[Len(s)])))
      [] OTHER -> Raise("ValueError")

FloatOf(x) ==
    CASE x.type = "float" -> Ok(x)
      [] x.type = "int" /\ x.mag = "exact" -> Ok(PyFloat(10 * x.n))
      [] x.type = "int" /\ x.mag = "e400" -> Raise("OverflowError")
      [] x.type = "int" -> Ok(PyVal("float", 0, <<>>, x.mag))
      [] x.type = "str" -> FloatOfStr(x.s)
      [] OTHER -> Raise("TypeError")

\* A byte written without its leading zero.
ByteHexUnpadded(b) ==
    IF b < 16 THEN <<HexDigits[b + 1]>>
    ELSE <<HexDigits[(b \div 16) + 1], HexDigits[(b % 16) + 1]>>

\* bytes.hex(): two lowercase hex digits per byte.
ByteHex(b) == <<HexDigits[(b \div 16) + 1], HexDigits[(b % 16) + 1]>>

RECURSIVE Hex(_)
Hex(bytes) == IF bytes = <<>> THEN <<>> ELSE ByteHex(Head(bytes)) \o Hex(Tail(bytes))

HexValue(c) == (CHOOSE i \in 1..Len(HexDigits) : HexDigits[i] = c) - 1

\* bytes.fromhex(): the inverse reading of a hex string, two digits a byte.
RECURSIVE FromHex(_)
FromHex(s) ==
    IF Len(s) < 2 THEN <<>>
    ELSE <<16 * HexValue(s[1]) + HexValue(s[2])>> \o FromHex(SubSeq(s, 3, Len(s)))

\* ------------------------------------------------- schema and inputs
BRIDGE_COLUMNS ==
    <<"timestamp", "device_id", "data_source", "network_source", "ingestion_node_id",
      "reading_type", "value", "unit",
      "latitude", "longitude", "altitude", "geo_country", "geo_subdivision",
      "board_model", "sensor_model", "deployment_type", "deployment_type_source",
      "transport_type", "deployment_location", "node_name", "node_info", "node_info_url",
      "signature", "ingester_id", "key_version">>

\* The keys a decoded reading may carry: every column but the three the
\* envelope supplies.
ReadingKeys == {BRIDGE_COLUMNS[i] : i \in 1..22}

\* reading_dict.get(key, default); get(key) is Get(d, key, PyNone).
Get(d, key, default) == IF d[key] = Missing THEN default ELSE d[key]

NoEnvelope == [present |-> FALSE, signature |-> <<>>, ingester_id |-> <<>>, key_version |-> 0]
Envelope(sig, ing, kv) ==
    [present |-> TRUE, signature |-> sig, ingester_id |-> ing, key_version |-> kv]

DevA == <<"A">>
DevB == <<"B">>
Temp == <<"t", "e", "m", "p">>
Ing1 == <<"i", "n", "g", "1">>

\* A decoded reading: the four identifying fields, a latitude and a node
\* name; every other key is absent.
Reading(dev, ts, val, lat, name) ==
    [k \in ReadingKeys |->
        CASE k = "device_id" -> PyStr(dev)
          [] k = "reading_type" -> PyStr(Temp)
          [] k = "timestamp" -> ts
          [] k = "value" -> val
          [] k = "latitude" -> lat
          [] k = "node_name" -> name
          [] OTHER -> Missing]

Msg(dev, ts, val, lat, name, env) ==
    [reading |-> Reading(dev, ts, val, lat, name), envelope |-> env]

\* The signature Ing1's key (version 1) yields, one that verifies under no
\* trusted key, and the two as envelopes.
GoodSig == <<0, 15, 171>>
ForgedSig == <<222, 173>>
GoodEnv == Envelope(GoodSig, Ing1, 1)
ForgedEnv == Envelope(ForgedSig, Ing1, 1)

GoodTs == PyInt(1000)
GoodValue == PyFloat(215)

\* The well-formed readings a relay forwards, and a forgery.
Relayed ==
    {Msg(DevA, GoodTs, GoodValue, Missing, Missing, NoEnvelope),
     Msg(DevA, GoodTs, GoodValue, PyFloat(15), PyStr(<<"n">>), GoodEnv),
     Msg(DevA, GoodTs, GoodValue, Missing, Missing, ForgedEnv)}

\* One well-formed unsigned reading, relayed again and again.
Unsigned == {Msg(DevA, GoodTs, GoodValue, Missing, Missing, NoEnvelope)}

\* The messages the mesh may carry: well-formed readings of two devices,
\* unsigned, signed and forged, and readings with a malformed timestamp,
\* value or latitude.
Messages ==
    {Msg(DevA, GoodTs, GoodValue, Missing, Missing, NoEnvelope),
     Msg(DevB, GoodTs, GoodValue, Missing, Missing, NoEnvelope),
     Msg(DevA, GoodTs, GoodValue, PyFloat(15), PyStr(<<"n">>), GoodEnv),
     Msg(DevA, GoodTs, GoodValue, Missing, Missing, ForgedEnv),
     Msg(DevA, PyNone, GoodValue, Missing, Missing, NoEnvelope),
     Msg(DevA, PyBigInt("e12"), GoodValue, Missing, Missing, NoEnvelope),
     Msg(DevA, PyInf, GoodValue, Missing, Missing, NoEnvelope),
     Msg(DevA, PyStr(<<"x">>), PyNone, Missing, Missing, NoEnvelope),
     Msg(DevA, GoodTs, PyNone, Missing, Missing, GoodEnv),
     Msg(DevA, GoodTs, PyStr(<<"x">>), Missing, Missing, NoEnvelope),
     Msg(DevA, GoodTs, PyNaN, Missing, Missing, NoEnvelope),
     Msg(DevA, GoodTs, GoodValue, PyStr(<<"n">>), Missing, NoEnvelope)}

\* --------------------------------------------------------------- state
\* The delivery contexts that may run the callback at the same time.
Callbacks == {1, 2}

VARIABLES
    environ,     \* what the process finds: trust registry readable, sink reachable
    exit_status, \* the process's exit status, -1 while it runs
    mainpc,      \* position of the main thread in main / __init__ / run
    frames,      \* stack of running shutdown handlers: the position of each
    signals,     \* termination signals raised so far
    running,     \* self.running
    stats,       \* self.stats
    dedup,       \* fingerprints held by self.dedup
    epoch,       \* per fingerprint, how many times it has expired from dedup
    expiries,    \* expiries so far
    writer,      \* self.ch_writer: buffer, sink, closed, close_calls
    emitted,     \* per appended row, the fingerprint and epoch that admitted it
    sub,         \* self.subscriber: session state and its own counters
    delivered,   \* messages the subscriber has taken from the mesh
    log,         \* records logged at WARNING or above
    pc,          \* per delivery context, the position inside _on_reading
    reading,     \* per delivery context, reading_dict
    signed,      \* per delivery context, signed_reading
    tmp,         \* per delivery context, the counter value read by a += 1
    ep,          \* per delivery context, the epoch of its accepted fingerprint
    escaped,     \* the exceptions that have escaped _on_reading
    done         \* per way of ending, how many invocations ended that way

vars == <<environ, exit_status, mainpc, frames, signals, running, stats, dedup, epoch,
          expiries, writer, emitted, sub, delivered, log, pc, reading, signed, tmp, ep,
          escaped, done>>

mainVars == <<environ, exit_status, mainpc, frames, signals, running>>
callbackVars == <<pc, reading, signed, tmp, ep, escaped, done>>

\* ------------------------------------------- collaborators' contracts
\* TrustStore: the registry load() installs, and verify().
TrustList == {[ingester_id |-> Ing1, key_version |-> 1, signature |-> GoodSig]}

Verify(env) ==
    \E e \in TrustList :
        /\ e.ingester_id = env.ingester_id
        /\ e.key_version = env.key_version
        /\ e.signature = env.signature

\* DeduplicationCache: the fingerprint is_duplicate() checks and records.
Fingerprint(device_id, reading_type, timestamp) == <<device_id, reading_type, timestamp>>

\* How many times a fingerprint has left the cache.
EpochOf(fp) == IF fp \in DOMAIN epoch THEN epoch[fp] ELSE 0

\* BufferedClickHouseWriter.add(row), a flush, and close().
WriterAdd(w, row) == [w EXCEPT !.buffer = Append(@, row)]
WriterFlush(w) == [w EXCEPT !.sink = @ \o w.buffer, !.buffer = <<>>]
WriterClose(w) ==
    IF w.closed THEN [w EXCEPT !.close_calls = @ + 1]
    ELSE [WriterFlush(w) EXCEPT !.closed = TRUE, !.close_calls = @ + 1]

\* Every row handed to the writer so far, in order.
AllRows == writer.sink \o writer.buffer

\* ZenohSubscriber.close().
SubscriberClose(s) ==
    [s EXCEPT !.connected = FALSE, !.subscribed = FALSE, !.close_calls = @ + 1]

\* ------------------------------------------------------------ __init__
\* A subscriber built without the trust store.
SubscriberArgsWithoutTrust == [trust_store |-> "None", on_reading |-> "_on_reading"]

\* The arguments __init__ gives ZenohSubscriber.
SubscriberArgs == [trust_store |-> "trust_store", on_reading |-> "_on_reading"]

\* The ways an invocation of _on_reading ends.
Endings == {"duplicate", "invalid_timestamp", "no_value", "written", "raised"}

InitialStats == [received |-> 0, written |-> 0, duplicates |-> 0, unsigned |-> 0]

Init ==
    /\ environ = [trust_readable |-> TRUE, sink_reachable |-> TRUE]
    /\ exit_status = -1
    /\ mainpc = "run"
    /\ frames = <<>>
    /\ signals = 0
    /\ running = TRUE
    /\ stats = InitialStats
    /\ dedup = {}
    /\ epoch = [f \in {} |-> 0]
    /\ expiries = 0
    /\ writer = [buffer |-> <<>>, sink |-> <<>>, closed |-> FALSE, close_calls |-> 0]
    /\ emitted = <<>>
    /\ sub = [connected |-> FALSE, subscribed |-> FALSE,
              close_calls |-> 0, verified |-> 0, rejected |-> 0,
              trust_store |-> SubscriberArgs.trust_store,
              on_reading |-> SubscriberArgs.on_reading]
    /\ delivered = 0
    /\ log = <<>>
    /\ pc = [t \in Callbacks |-> "idle"]
    /\ reading = [t \in Callbacks |-> [k \in ReadingKeys |-> Missing]]
    /\ signed = [t \in Callbacks |-> NoEnvelope]
    /\ tmp = [t \in Callbacks |-> 0]
    /\ ep = [t \in Callbacks |-> 0]
    /\ escaped = {}
    /\ done = [e \in Endings |-> 0]

\* What the process may find when it starts.
Environments == [trust_readable : BOOLEAN, sink_reachable : BOOLEAN]

\* self.subscriber before __init__ has built it.
NoSubscriber ==
    [connected |-> FALSE, subscribed |-> FALSE, close_calls |-> 0, verified |-> 0,
     rejected |-> 0, trust_store |-> "unset", on_reading |-> "unset"]

\* The state in which main starts: nothing is built yet.
InitProcess ==
    /\ environ \in Environments
    /\ exit_status = -1
    /\ mainpc = "load_trust"
    /\ frames = <<>>
    /\ signals = 0
    /\ running = TRUE
    /\ stats = InitialStats
    /\ dedup = {}
    /\ epoch = [f \in {} |-> 0]
    /\ expiries = 0
    /\ writer = [buffer |-> <<>>, sink |-> <<>>, closed |-> FALSE, close_calls |-> 0]
    /\ emitted = <<>>
    /\ sub = NoSubscriber
    /\ delivered = 0
    /\ log = <<>>
    /\ pc = [t \in Callbacks |-> "idle"]
    /\ reading = [t \in Callbacks |-> [k \in ReadingKeys |-> Missing]]
    /\ signed = [t \in Callbacks |-> NoEnvelope]
    /\ tmp = [t \in Callbacks |-> 0]
    /\ ep = [t \in Callbacks |-> 0]
    /\ escaped = {}
    /\ done = [e \in Endings |-> 0]

\* --------------------------------------------------------- _on_reading
\* The process is alive until main returns.
Alive == mainpc # "exited"

\* The DedupFingerprint of a reading: device identity, reading kind, timestamp.
FingerprintOf(reading_dict) ==
    Fingerprint(Get(reading_dict, "device_id", PyStr(<<>>)),
                Get(reading_dict, "reading_type", PyStr(<<>>)),
                Get(reading_dict, "timestamp", PyInt(0)))

\* A key built from the node name in place of the reading kind.
DedupKeyByNodeName(reading_dict) ==
    Fingerprint(Get(reading_dict, "device_id", PyStr(<<>>)),
                Get(reading_dict, "node_name", PyStr(<<>>)),
                Get(reading_dict, "timestamp", PyInt(0)))

\* The three values is_duplicate() is called with.
DedupKey(reading_dict) ==
    Fingerprint(Get(reading_dict, "device_id", PyStr(<<>>)),
                Get(reading_dict, "reading_type", PyStr(<<>>)),
                Get(reading_dict, "timestamp", PyInt(0)))

\* The duplicate branch without its return.
AfterDuplicateFallThrough == "continue"

\* Where control goes once the duplicates counter is incremented.
AfterDuplicate == "return"

\* signature, ingester_id and key_version, and whether the reading counts
\* as unsigned.
SignatureFields(signed_reading) ==
    IF signed_reading.present
    THEN [signature |-> PyStr(Hex(signed_reading.signature)),
          ingester_id |-> PyStr(signed_reading.ingester_id),
          key_version |-> PyInt(signed_reading.key_version),
          unsigned |-> FALSE]
    ELSE [signature |-> PyStr(<<>>), ingester_id |-> PyStr(<<>>),
          key_version |-> PyInt(0), unsigned |-> TRUE]

\* datetime.fromtimestamp(int(timestamp), tz=timezone.utc)
ParseTimestamp(timestamp) ==
    LET i == IntOf(timestamp)
    IN  IF i.exc # "None" THEN i ELSE FromTimestamp(i.val)

\* The exceptions the timestamp parse's except clause names.
CaughtTimestampErrors == {"ValueError", "TypeError", "OSError"}

\* An except clause that leaves ValueError out.
CaughtValueErrorsTypeOnly == {"TypeError"}

\* The exceptions the value conversion's except clause names.
CaughtValueErrors == {"ValueError", "TypeError"}

\* value: absent or None gives "skip", as does a float() error that is
\* caught; any other error escapes.
ParseValue(reading_dict) ==
    LET value == Get(reading_dict, "value", PyNone)
        f == FloatOf(value)
    IN  IF value = PyNone THEN [exc |-> "None", skip |-> TRUE, val |-> PyNone]
        ELSE IF f.exc \in CaughtValueErrors
             THEN [exc |-> "None", skip |-> TRUE, val |-> PyNone]
        ELSE [exc |-> f.exc, skip |-> FALSE, val |-> f.val]

\* float(reading_dict[key]) if reading_dict.get(key) is not None else None
GeoField(reading_dict, key) ==
    IF Get(reading_dict, key, PyNone) # PyNone THEN FloatOf(reading_dict[key])
    ELSE Ok(PyNone)

\* The row tuple, or the first exception building it raises.
Row(reading_dict, ts, value, sig) ==
    LET lat == GeoField(reading_dict, "latitude")
        lon == GeoField(reading_dict, "longitude")
        alt == GeoField(reading_dict, "altitude")
        text(key) == Get(reading_dict, key, PyStr(<<>>))
    IN  IF lat.exc # "None" THEN Raise(lat.exc)
        ELSE IF lon.exc # "None" THEN Raise(lon.exc)
        ELSE IF alt.exc # "None" THEN Raise(alt.exc)
        ELSE Ok(<<ts,
                  Get(reading_dict, "device_id", PyStr(<<>>)),
                  text("data_source"),
                  text("network_source"),
                  text("ingestion_node_id"),
                  Get(reading_dict, "reading_type", PyStr(<<>>)),
                  value,
                  text("unit"),
                  lat.val,
                  lon.val,
                  alt.val,
                  text("geo_country"),
                  text("geo_subdivision"),
                  text("board_model"),
                  text("sensor_model"),
                  text("deployment_type"),
                  text("deployment_type_source"),
                  text("transport_type"),
                  text("deployment_location"),
                  Get(reading_dict, "node_name", PyNone),
                  Get(reading_dict, "node_info", PyNone),
                  Get(reading_dict, "node_info_url", PyNone),
                  sig.signature,
                  sig.ingester_id,
                  sig.key_version>>)

NoReading == [k \in ReadingKeys |-> Missing]

\* The invocation moves on to its next statement.
Goto(t, where) ==
    /\ pc' = [pc EXCEPT ![t] = where]
    /\ UNCHANGED <<reading, signed, ep, done>>

\* The invocation ends, its locals with it.
Leave(t, how) ==
    /\ pc' = [pc EXCEPT ![t] = "idle"]
    /\ done' = [done EXCEPT ![how] = @ + 1]
    /\ reading' = [reading EXCEPT ![t] = NoReading]
    /\ signed' = [signed EXCEPT ![t] = NoEnvelope]
    /\ ep' = [ep EXCEPT ![t] = 0]

Return(t, how) == Leave(t, how) /\ UNCHANGED escaped

Escape(t, e) == Leave(t, "raised") /\ escaped' = escaped \cup {e}

\* self.stats[counter] += 1 reads the counter, then writes it back.
LoadCounter(t, at, counter, next) ==
    /\ Alive
    /\ pc[t] = at
    /\ tmp' = [tmp EXCEPT ![t] = stats[counter]]
    /\ Goto(t, next)
    /\ UNCHANGED <<mainVars, stats, dedup, epoch, expiries, writer, emitted, sub,
                   delivered, log, escaped>>

StoreCounter(t, at, counter) ==
    /\ Alive
    /\ pc[t] = at
    /\ stats' = [stats EXCEPT ![counter] = tmp[t] + 1]
    /\ tmp' = [tmp EXCEPT ![t] = 0]
    /\ UNCHANGED <<mainVars, dedup, epoch, expiries, writer, emitted, sub, delivered,
                   log>>

ReceivedLoad(t) == LoadCounter(t, "received", "received", "received_store")

ReceivedStore(t) ==
    /\ StoreCounter(t, "received_store", "received")
    /\ Goto(t, "dedup")
    /\ UNCHANGED escaped

\* is_duplicate() checks and records in one step; a new fingerprint goes on
\* to the envelope test, whose signed branch only sets locals.
DedupCheck(t) ==
    LET fp == DedupKey(reading[t])
    IN  /\ Alive
        /\ pc[t] = "dedup"
        /\ pc' = [pc EXCEPT ![t] =
                    IF fp \in dedup THEN "duplicates"
                    ELSE IF SignatureFields(signed[t]).unsigned THEN "unsigned"
                    ELSE "timestamp"]
        /\ dedup' = dedup \cup {fp}
        /\ ep' = [ep EXCEPT ![t] = EpochOf(fp)]
        /\ UNCHANGED <<mainVars, stats, epoch, expiries, writer, emitted, sub, delivered,
                       log, reading, signed, tmp, escaped, done>>

DuplicatesLoad(t) == LoadCounter(t, "duplicates", "duplicates", "duplicates_store")

DuplicatesStore(t) ==
    /\ StoreCounter(t, "duplicates_store", "duplicates")
    /\ IF AfterDuplicate = "return"
       THEN Return(t, "duplicate")
       ELSE /\ Goto(t, IF SignatureFields(signed[t]).unsigned THEN "unsigned"
                       ELSE "timestamp")
            /\ UNCHANGED escaped

UnsignedLoad(t) == LoadCounter(t, "unsigned", "unsigned", "unsigned_store")

UnsignedStore(t) ==
    /\ StoreCounter(t, "unsigned_store", "unsigned")
    /\ Goto(t, "timestamp")
    /\ UNCHANGED escaped

Warning(timestamp, device_id) ==
    [level |-> "WARNING", timestamp |-> timestamp, device_id |-> device_id]

\* From the timestamp parse to ch_writer.add(row): local computation with
\* one effect outside the invocation: a warning, a row, or an exception.
RowStep(t) ==
    LET timestamp == Get(reading[t], "timestamp", PyInt(0))
        ts == ParseTimestamp(timestamp)
        v == ParseValue(reading[t])
        row == Row(reading[t], ts.val, v.val, SignatureFields(signed[t]))
    IN  /\ Alive
        /\ pc[t] = "timestamp"
        /\ IF ts.exc \in CaughtTimestampErrors
           THEN /\ log' = Append(log, Warning(timestamp,
                                    Get(reading[t], "device_id", PyStr(<<>>))))
                /\ Return(t, "invalid_timestamp")
                /\ UNCHANGED <<writer, emitted>>
           ELSE IF ts.exc # "None"
           THEN Escape(t, ts.exc) /\ UNCHANGED <<writer, emitted, log>>
           ELSE IF v.skip
           THEN Return(t, "no_value") /\ UNCHANGED <<writer, emitted, log>>
           ELSE IF v.exc # "None"
           THEN Escape(t, v.exc) /\ UNCHANGED <<writer, emitted, log>>
           ELSE IF row.exc # "None"
           THEN Escape(t, row.exc) /\ UNCHANGED <<writer, emitted, log>>
           ELSE /\ writer' = WriterAdd(writer, row.val)
                /\ emitted' = Append(emitted,
                                     [fp |-> FingerprintOf(reading[t]), epoch |-> ep[t]])
                /\ Goto(t, "written")
                /\ UNCHANGED <<log, escaped>>
        /\ UNCHANGED <<mainVars, stats, dedup, epoch, expiries, sub, delivered, tmp>>

WrittenLoad(t) == LoadCounter(t, "written", "written", "written_store")

WrittenStore(t) ==
    /\ StoreCounter(t, "written_store", "written")
    /\ Return(t, "written")

OnReading(t) ==
    \/ ReceivedLoad(t)
    \/ ReceivedStore(t)
    \/ DedupCheck(t)
    \/ DuplicatesLoad(t)
    \/ DuplicatesStore(t)
    \/ UnsignedLoad(t)
    \/ UnsignedStore(t)
    \/ RowStep(t)
    \/ WrittenLoad(t)
    \/ WrittenStore(t)

\* ------------------------------------------------ subscriber delivery
\* An inbound message whose envelope fails verification is counted and
\* dropped; any other is counted and handed to the callback, in the idle
\* delivery context of lowest number (the contexts are interchangeable).
Rejects(m) == m.envelope.present /\ sub.trust_store # "None" /\ ~Verify(m.envelope)

Receiving == Alive /\ sub.connected /\ sub.subscribed /\ delivered < MaxDeliveries

\* A signed message that fails verification is dropped by the subscriber and
\* counted as rejected; the callback is not invoked.
Reject(m) ==
    /\ Receiving
    /\ Rejects(m)
    /\ delivered' = delivered + 1
    /\ sub' = [sub EXCEPT !.rejected = @ + 1]
    /\ UNCHANGED <<mainVars, stats, dedup, epoch, expiries, writer, emitted, log,
                   callbackVars>>

Deliver(t, m) ==
    /\ Receiving
    /\ ~Rejects(m)
    /\ pc[t] = "idle"
    /\ \A u \in Callbacks : u < t => pc[u] # "idle"
    /\ delivered' = delivered + 1
    /\ sub' = [sub EXCEPT !.verified = @ + 1]
    /\ pc' = [pc EXCEPT ![t] = "received"]
    /\ reading' = [reading EXCEPT ![t] = m.reading]
    /\ signed' = [signed EXCEPT ![t] = m.envelope]
    /\ UNCHANGED <<mainVars, stats, dedup, epoch, expiries, writer, emitted, log,
                   tmp, ep, escaped, done>>

\* A fingerprint leaves the cache when the dedup horizon has passed.
Expire(fp) ==
    /\ Alive
    /\ fp \in dedup
    /\ expiries < MaxExpiries
    /\ dedup' = dedup \ {fp}
    /\ epoch' = [f \in DOMAIN epoch \cup {fp} |->
                    IF f = fp THEN EpochOf(fp) + 1 ELSE epoch[f]]
    /\ expiries' = expiries + 1
    /\ UNCHANGED <<mainVars, stats, writer, emitted, sub, delivered, log, callbackVars>>

\* The writer's size- or time-triggered flush.
Flush ==
    /\ Alive
    /\ ~writer.closed
    /\ writer.buffer # <<>>
    /\ writer' = WriterFlush(writer)
    /\ UNCHANGED <<mainVars, stats, dedup, epoch, expiries, emitted, sub, delivered,
                   log, callbackVars>>

\* ------------------------------------------------------ run, shutdown
\* The main thread runs its own code only while no handler is on its stack.
MainStep(at, next) ==
    /\ mainpc = at
    /\ frames = <<>>
    /\ mainpc' = next
    /\ UNCHANGED <<environ, frames, signals>>

sharedVars ==
    <<stats, dedup, epoch, expiries, writer, emitted, delivered, log, callbackVars>>

\* What __init__ builds besides the subscriber is left as it is.
builtVars == <<running, stats, dedup, epoch, expiries, writer, emitted, delivered, log,
               pc, reading, signed, tmp, ep, escaped, done>>

\* trust_store.load(): its TrustLoadError is not caught, and ends main with
\* status 1.
LoadTrust ==
    /\ MainStep("load_trust", IF environ.trust_readable THEN "open_writer" ELSE "exited")
    /\ exit_status' = IF environ.trust_readable THEN exit_status ELSE 1
    /\ UNCHANGED <<sub, builtVars>>

\* An except clause that logs the error and goes on.
OnSinkErrorContinue == "continue"

\* What the except clause around the writer's construction does.
OnSinkError == "sys.exit(1)"

OpenWriter ==
    LET exits == ~environ.sink_reachable /\ OnSinkError = "sys.exit(1)"
    IN  /\ MainStep("open_writer", IF exits THEN "exited" ELSE "build_subscriber")
        /\ exit_status' = IF exits THEN 1 ELSE exit_status
        /\ UNCHANGED <<sub, builtVars>>

BuildSubscriber ==
    /\ MainStep("build_subscriber", "run")
    /\ sub' = [sub EXCEPT !.trust_store = SubscriberArgs.trust_store,
                          !.on_reading = SubscriberArgs.on_reading]
    /\ UNCHANGED <<exit_status, builtVars>>

Construct ==
    \/ LoadTrust
    \/ OpenWriter
    \/ BuildSubscriber

InstallHandlers ==
    /\ MainStep("run", "connect")
    /\ UNCHANGED <<exit_status, running, sub, sharedVars>>

Connect ==
    /\ MainStep("connect", "subscribe")
    /\ sub' = [sub EXCEPT !.connected = TRUE]
    /\ UNCHANGED <<exit_status, running, sharedVars>>

\* subscribe() needs the session: without one it raises, and the exception
\* ends main with status 1.
Subscribe ==
    /\ MainStep("subscribe", IF sub.connected THEN "loop" ELSE "exited")
    /\ exit_status' = IF sub.connected THEN exit_status ELSE 1
    /\ sub' = [sub EXCEPT !.subscribed = sub.connected]
    /\ UNCHANGED <<running, sharedVars>>

\* while self.running: when it is false run returns, and main with it.
LoopTest ==
    /\ MainStep("loop", IF running THEN "sleep" ELSE "exited")
    /\ exit_status' = IF running THEN exit_status ELSE 0
    /\ UNCHANGED <<running, sub, sharedVars>>

\* time.sleep(STATS_INTERVAL), then print_stats(), which only reads.
SleepAndPrintStats ==
    /\ MainStep("sleep", "loop")
    /\ UNCHANGED <<exit_status, running, sub, sharedVars>>

\* SIGINT or SIGTERM, once run has installed shutdown as their handler: the
\* handler starts on top of whatever the main thread is doing.
Signal ==
    /\ mainpc \in {"connect", "subscribe", "loop", "sleep"}
    /\ signals < MaxSignals
    /\ signals' = signals + 1
    /\ frames' = <<"shutdown">> \o frames
    /\ UNCHANGED <<environ, exit_status, mainpc, running, sub, sharedVars>>

ShutdownStep(at, next) ==
    /\ Alive
    /\ frames # <<>>
    /\ Head(frames) = at
    /\ frames' = IF next = "return" THEN Tail(frames) ELSE <<next>> \o Tail(frames)
    /\ UNCHANGED <<environ, exit_status, mainpc, signals>>

\* A handler that leaves the flag as it is.
RunningLeftSet == TRUE

\* The value shutdown gives self.running.
RunningAfterShutdown == FALSE

ShutdownSetRunning ==
    /\ ShutdownStep("shutdown", "close_subscriber")
    /\ running' = RunningAfterShutdown
    /\ UNCHANGED <<sub, sharedVars>>

ShutdownCloseSubscriber ==
    /\ ShutdownStep("close_subscriber", "close_writer")
    /\ sub' = SubscriberClose(sub)
    /\ UNCHANGED <<running, sharedVars>>

ShutdownCloseWriter ==
    /\ ShutdownStep("close_writer", "return")
    /\ writer' = WriterClose(writer)
    /\ UNCHANGED <<running, sub, stats, dedup, epoch, expiries, emitted, delivered, log,
                   callbackVars>>

Startup ==
    \/ InstallHandlers
    \/ Connect
    \/ Subscribe
    \/ LoopTest

Shutdown ==
    \/ Signal
    \/ ShutdownSetRunning
    \/ ShutdownCloseSubscriber
    \/ ShutdownCloseWriter

\* The whole program over a run shorter than the dedup horizon, the mesh
\* relaying well-formed readings.
Next ==
    \/ Startup
    \/ SleepAndPrintStats
    \/ Shutdown
    \/ \E m \in Relayed : Reject(m)
    \/ \E t \in Callbacks, m \in Relayed : Deliver(t, m)
    \/ \E t \in Callbacks : OnReading(t)
    \/ Flush

Spec == Init /\ [][Next]_vars

\* The whole program when every sleep and every close call returns: the
\* main thread and the handlers on its stack keep taking their steps.
LiveNext ==
    \/ Startup
    \/ SleepAndPrintStats
    \/ Shutdown
    \/ \E t \in Callbacks, m \in Unsigned : Deliver(t, m)
    \/ \E t \in Callbacks : OnReading(t)

LiveSpec ==
    /\ Init /\ [][LiveNext]_vars
    /\ WF_vars(LoopTest)
    /\ WF_vars(SleepAndPrintStats)
    /\ WF_vars(ShutdownSetRunning)
    /\ WF_vars(ShutdownCloseSubscriber)
    /\ WF_vars(ShutdownCloseWriter)

\* The bridge up to its steady state, the mesh carrying every message
\* shape, within the dedup horizon and with no termination signal.
IngestNext ==
    \/ Startup
    \/ \E m \in Messages : Reject(m)
    \/ \E t \in Callbacks, m \in Messages : Deliver(t, m)
    \/ \E t \in Callbacks : OnReading(t)

IngestSpec == Init /\ [][IngestNext]_vars

\* The bridge up to its steady state over a run longer than the dedup
\* horizon, the mesh relaying well-formed readings.
HorizonNext ==
    \/ Startup
    \/ \E m \in Relayed : Reject(m)
    \/ \E t \in Callbacks, m \in Relayed : Deliver(t, m)
    \/ \E t \in Callbacks : OnReading(t)
    \/ \E fp \in dedup : Expire(fp)

HorizonSpec == Init /\ [][HorizonNext]_vars

\* The process from the start of main to its steady state, whatever it
\* finds, the mesh relaying well-formed readings.
ProcessNext ==
    \/ Construct
    \/ Startup
    \/ \E m \in Relayed : Reject(m)
    \/ \E t \in Callbacks, m \in Relayed : Deliver(t, m)
    \/ \E t \in Callbacks : OnReading(t)

ProcessSpec == InitProcess /\ [][ProcessNext]_vars

\* -------------------------------------------------------------- claims
AllIdle == \A t \in Callbacks : pc[t] = "idle"

InFlight == Cardinality({t \in Callbacks : pc[t] # "idle"})

Ended ==
    done["duplicate"] + done["invalid_timestamp"] + done["no_value"] + done["written"]
    + done["raised"]

\* The step is one of invocation t's own statements.
StepOf(t) == pc[t] # "idle" /\ pc'[t] # pc[t]

\* The row a step appends.
NewRow == writer'.buffer[Len(writer'.buffer)]

Appends == Len(writer'.buffer) = Len(writer.buffer) + 1 /\ writer'.sink = writer.sink

TimestampOf(t) == Get(reading[t], "timestamp", PyInt(0))

ValueMissingOrNonNumeric(reading_dict) ==
    LET value == Get(reading_dict, "value", PyNone)
    IN  \/ value = PyNone
        \/ value.type \notin {"int", "float", "str"}
        \/ value.type = "str" /\ FloatOfStr(value.s).exc # "None"

\* C1: within one stay of a fingerprint in the dedup cache, at most one row
\* carrying that fingerprint is appended, whatever the interleaving of the
\* delivery contexts; every appended row is accounted for.
C1_AtMostOneRowPerFingerprint ==
    /\ Len(emitted) = Len(AllRows)
    /\ \A i, j \in 1..Len(emitted) : emitted[i] = emitted[j] => i = j

\* Two invocations hold the same fingerprint at once: one has appended its
\* row, the other is in the duplicate branch.
C1_Witness ==
    \E t, u \in Callbacks :
        /\ pc[t] = "written"
        /\ pc[u] = "duplicates"
        /\ FingerprintOf(reading[t]) = FingerprintOf(reading[u])

\* Two readings have been handed to the callback, both have returned, and
\* they shared one fingerprint.
TwoSharingDelivered == AllIdle /\ sub.verified = 2 /\ Cardinality(dedup) = 1

\* C2 as stated: two readings sharing a fingerprint give exactly one row
\* and one duplicate count, whatever their other fields.
C2_ExactlyOneRow ==
    TwoSharingDelivered => Len(AllRows) = 1 /\ stats.duplicates = 1

\* C2 amended: two readings sharing a fingerprint count one duplicate, the
\* second, and give at most one row: exactly one when the first is
\* appended, none when the first is dropped by validation or raises.
C2_AtMostOneRow ==
    TwoSharingDelivered =>
        /\ stats.duplicates = 1
        /\ done["duplicate"] = 1
        /\ Len(AllRows) =
              IF done["invalid_timestamp"] + done["no_value"] + done["raised"] = 0
              THEN 1 ELSE 0

C2_Witness == TwoSharingDelivered /\ Len(AllRows) = 1 /\ stats.duplicates = 1

\* C3: a reading whose envelope fails verification never enters
\* _on_reading and never becomes a row, and each such message is counted
\* as rejected: the callback holds only unsigned or verified readings.
C3_RejectedNeverDelivered ==
    /\ \A t \in Callbacks : pc[t] # "idle" => ~signed[t].present \/ Verify(signed[t])
    /\ \A i \in 1..Len(AllRows) : AllRows[i][23] # PyStr(Hex(ForgedSig))
    /\ sub.verified = InFlight + Ended
    /\ sub.rejected = delivered - sub.verified

C3_Witness == sub.rejected >= 1 /\ Len(AllRows) >= 1

\* C4: a non-duplicate reading with no envelope, a parseable timestamp and
\* a numeric value is appended with signature "", ingester id "" and key
\* version 0, after the unsigned counter was incremented.
C4_UnsignedPersisted ==
    [][\A t \in Callbacks :
          /\ pc[t] = "timestamp"
          /\ StepOf(t)
          /\ ~signed[t].present
          /\ ParseTimestamp(TimestampOf(t)).exc = "None"
          /\ ~ValueMissingOrNonNumeric(reading[t])
          => /\ Appends
             /\ NewRow[23] = PyStr(<<>>)
             /\ NewRow[24] = PyStr(<<>>)
             /\ NewRow[25] = PyInt(0)
             /\ stats.unsigned >= 1]_vars

\* C5: the row appended for a signed reading carries a signature that
\* hex-decodes to the envelope's bytes, and the envelope's ingester id and
\* key version.
C5_SignaturePreserved ==
    [][\A t \in Callbacks :
          pc[t] = "timestamp" /\ pc'[t] = "written" /\ signed[t].present
          => /\ NewRow[23].type = "str"
             /\ FromHex(NewRow[23].s) = signed[t].signature
             /\ NewRow[24] = PyStr(signed[t].ingester_id)
             /\ NewRow[25] = PyInt(signed[t].key_version)]_vars

C5_Witness == \E t \in Callbacks : pc[t] = "written" /\ signed[t].present

\* C6: a non-duplicate reading whose timestamp is no valid instant appends
\* no row, logs a warning and returns normally.
C6_InvalidTimestampDropped ==
    [][\A t \in Callbacks :
          /\ pc[t] = "timestamp"
          /\ StepOf(t)
          /\ ParseTimestamp(TimestampOf(t)).exc # "None"
          => /\ writer' = writer
             /\ Len(log') = Len(log) + 1
             /\ escaped' = escaped
             /\ pc'[t] = "idle"]_vars

\* C7: every appended row's value is a finite number.
C7_RowValuesFinite ==
    \A i \in 1..Len(AllRows) :
        AllRows[i][7].type = "float" /\ AllRows[i][7].mag = "exact"

C9_NeverRaises == escaped = {}

\* C10: over the whole run the subscriber's close and the writer's close
\* are each called at most once.
C10_CloseAtMostOnce == sub.close_calls <= 1 /\ writer.close_calls <= 1

\* C11: the subscriber is closed before the writer is, and no row is
\* appended once the writer is closed: a closed writer's buffer is empty,
\* every row having gone out with the final flush.
C11_DrainOrdering ==
    /\ writer.close_calls >= 1 => sub.close_calls >= 1
    /\ writer.closed => writer.buffer = <<>>

\* C12: when the trust registry cannot be read or the sink cannot be
\* reached, the process never gets past __init__: the subscriber is never
\* connected or subscribed, no message is taken and no callback runs, and
\* when the process has ended its exit status is 1.
C12_FatalStartup ==
    ~environ.trust_readable \/ ~environ.sink_reachable
    => /\ mainpc \in {"load_trust", "open_writer", "exited"}
       /\ mainpc = "exited" => exit_status = 1
       /\ ~sub.connected /\ ~sub.subscribed
       /\ sub.on_reading = "unset"
       /\ delivered = 0 /\ sub.verified = 0
       /\ AllIdle

\* The trust registry loaded, the sink was unreachable, the process left
\* with status 1.
C12_Witness ==
    /\ environ.trust_readable /\ ~environ.sink_reachable
    /\ mainpc = "exited" /\ exit_status = 1

\* The optional columns a reading may leave out: the numeric geolocation
\* ones, and the textual ones.
GeoColumns == {"latitude", "longitude", "altitude"}

TextColumns ==
    {BRIDGE_COLUMNS[i] : i \in 1..22}
        \ ({"timestamp", "device_id", "reading_type", "value"} \cup GeoColumns)

\* C13: an appended row has the 25 fields of BRIDGE_COLUMNS in their order:
\* a textual field the reading carries is at its column's place, one it
\* lacks is "", and a geolocation field it lacks is None.
C13_RowShape ==
    [][\A t \in Callbacks :
          pc[t] = "timestamp" /\ pc'[t] = "written"
          => /\ Appends
             /\ Len(NewRow) = 25
             /\ Len(NewRow) = Len(BRIDGE_COLUMNS)
             /\ NewRow[1].type = "datetime"
             /\ \A i \in 1..22 :
                   LET column == BRIDGE_COLUMNS[i]
                       field == reading[t][column]
                   IN  /\ column \in TextColumns
                          => NewRow[i] = IF field = Missing THEN PyStr(<<>>) ELSE field
                       /\ column \in GeoColumns /\ field = Missing
                          => NewRow[i] = PyNone]_vars

\* The messages whose reading is valid: a timestamp that parses and a
\* numeric value.
ValidMessages ==
    {m \in Messages :
        /\ ParseTimestamp(Get(m.reading, "timestamp", PyInt(0))).exc = "None"
        /\ ~ValueMissingOrNonNumeric(m.reading)}

\* The bridge up to its steady state within the dedup horizon, the mesh
\* carrying valid readings only.
ValidNext ==
    \/ Startup
    \/ \E m \in ValidMessages : Reject(m)
    \/ \E t \in Callbacks, m \in ValidMessages : Deliver(t, m)
    \/ \E t \in Callbacks : OnReading(t)

ValidSpec == Init /\ [][ValidNext]_vars

\* C14: once every delivered reading has been processed, the rows appended
\* are as many as the distinct fingerprints delivered, and the duplicates
\* counter holds the number of readings delivered less that number.
C14_RowsAreDistinctFingerprints ==
    AllIdle
    => /\ Len(AllRows) = Cardinality(dedup)
       /\ stats.duplicates = sub.verified - Cardinality(dedup)

\* The lifecycle state of spec 4.5, read off the main thread's position and
\* the running flag, and the order of the states.
Lifecycle ==
    IF mainpc = "exited" THEN "STOPPED"
    ELSE IF ~running THEN "DRAINING"
    ELSE IF mainpc \in {"load_trust", "open_writer", "build_subscriber"} THEN "INIT"
    ELSE IF mainpc \in {"run", "connect", "subscribe"} THEN "CONNECTING"
    ELSE "RUNNING"

LifecycleOrder == <<"INIT", "CONNECTING", "RUNNING", "DRAINING", "STOPPED">>

Rank(state) == CHOOSE i \in 1..Len(LifecycleOrder) : LifecycleOrder[i] = state

\* C15: the lifecycle never steps back; once draining has started the
\* subscriber is not connected and not subscribed again, and the bridge is
\* never STOPPED with the mesh session open.
C15_LifecycleForward ==
    [][/\ Rank(Lifecycle') >= Rank(Lifecycle)
       /\ Lifecycle \in {"DRAINING", "STOPPED"}
          => /\ sub'.connected => sub.connected
             /\ sub'.subscribed => sub.subscribed
       /\ Lifecycle' = "STOPPED" => ~sub'.connected]_vars

\* C16: a termination signal handled while the control loop runs leads to
\* the running flag being false and run having returned.
C16_ShutdownTerminates ==
    (frames # <<>> /\ mainpc \in {"loop", "sleep"}) ~> (~running /\ mainpc = "exited")

\* One signal, taken in the control loop: the session was closed and never
\* reopened, and main returned.
C16_Witness ==
    /\ signals = 1 /\ ~running /\ ~sub.connected
    /\ mainpc = "exited" /\ exit_status = 0

\* The invocations that have not yet stored their received += 1.
BeforeReceived == {u \in Callbacks : pc[u] \in {"received", "received_store"}}

\* C17: when the dedup check reports a duplicate, the invocation's
\* received += 1 is in the counter; from there it adds one to duplicates
\* and returns, leaving received, unsigned, written, the writer and the log
\* as they are, whatever the envelope, timestamp and value.
C17_DuplicateFrame ==
    [][\A t \in Callbacks :
          StepOf(t)
          => /\ pc[t] = "dedup" /\ pc'[t] = "duplicates"
                => stats.received = sub.verified - Cardinality(BeforeReceived)
             /\ pc[t] \in {"duplicates", "duplicates_store"}
                => /\ stats'.received = stats.received
                   /\ stats'.unsigned = stats.unsigned
                   /\ stats'.written = stats.written
                   /\ writer' = writer
                   /\ log' = log
                   /\ escaped' = escaped
             /\ pc[t] = "duplicates_store"
                => /\ stats'.duplicates = stats.duplicates + 1
                   /\ pc'[t] = "idle"]_vars

\* The counters the bridge and its subscriber keep.
Counters == <<stats, sub.verified, sub.rejected>>

\* C18: each drop for a failed verification, a duplicate or an unparseable
\* timestamp increments a counter: rejected for the first, duplicates for
\* the second, some counter for the third.
C18_DropsCounted ==
    [][/\ delivered' = delivered + 1 /\ sub'.verified = sub.verified
          => sub'.rejected = sub.rejected + 1
       /\ done'["duplicate"] = done["duplicate"] + 1
          => stats'.duplicates = stats.duplicates + 1
       /\ done'["invalid_timestamp"] = done["invalid_timestamp"] + 1
          => Counters' # Counters]_vars

\* C19: with no invocation in flight, received is the number of
\* invocations, written the number of rows appended, and every invocation
\* is a duplicate, a row, or a drop for its timestamp or its value.
C19_CountersConserved ==
    AllIdle
    => /\ stats.received = sub.verified
       /\ stats.written = Len(AllRows)
       /\ stats.received = stats.duplicates + stats.written
                             + done["invalid_timestamp"] + done["no_value"]
       /\ stats.written + stats.duplicates <= stats.received
       /\ stats.unsigned <= stats.received - stats.duplicates

\* A reading is legitimate when it has no envelope or its envelope verifies.
Legitimate(signed_reading) == ~signed_reading.present \/ Verify(signed_reading)

\* C20: only the dedup check of a legitimate reading's invocation records
\* a fingerprint, a rejection records none, and the first reading to reach
\* the callback is never reported a duplicate, however many were rejected
\* before it.
C20_RejectedNeverRecorded ==
    [][/\ sub'.rejected # sub.rejected => dedup' = dedup
       /\ dedup' # dedup
          => \E t \in Callbacks :
                /\ pc[t] = "dedup" /\ StepOf(t)
                /\ Legitimate(signed[t])
                /\ dedup' = dedup \cup {FingerprintOf(reading[t])}
       /\ \A t \in Callbacks :
             pc[t] = "dedup" /\ StepOf(t) /\ sub.verified = 1
             => pc'[t] # "duplicates"]_vars

\* A forgery was rejected, and the one reading delivered was persisted and
\* not counted as a duplicate.
C20_Witness ==
    /\ sub.rejected >= 1 /\ sub.verified = 1 /\ AllIdle
    /\ Len(AllRows) = 1 /\ stats.duplicates = 0
    /\ dedup = {Fingerprint(PyStr(DevA), PyStr(Temp), GoodTs)}

====
